---- MODULE Spec2Model ----
(***************************************************************************)
(* Model of src/main.py: the PowerTag sampling / decode / alert scheduler  *)
(* (Run), the retrying Modbus reader (ModbusReader), the alert evaluation  *)
(* (CheckAlerts) and the query handler (GetPowertags).                      *)
(*                                                                         *)
(* Time is an integer number of seconds.  The settings of main.py:23-49    *)
(* that are durations are scaled down (pollInterval 80 -> 2, alertCooldown *)
(* 300 -> 3, asciiReadInterval 600 -> 3, retryDelay 0.3 -> 1, retries      *)
(* 3 -> 2) so that a few cycles cover "inside" and "outside" each window;  *)
(* the thresholds keep their values.  Decoded floats are held as integer   *)
(* hundredths (ReadFloat rounds to 2 decimals): 260.0 is 26000.            *)
(***************************************************************************)
EXTENDS Integers, Sequences, FiniteSets, TLC

VARIABLES
    config,            \* settings.json as loaded: gateways, powertags, registerMap
    pc,                \* position of the monitor thread inside Run
    now,               \* time.time()
    client,            \* Run's local `client`: index of the gateway connected last
    sessions,          \* gateway index -> "none" | "open" | "closed"
    cycleStart,        \* Run's local cycleStart
    tagIdx,            \* index in powertags of the entity being sampled
    regIdx,            \* index in registerMap of the register being read
    currentRow,        \* Run's local currentRow
    currentCycleData,  \* Run's local currentCycleData
    latestReadings,    \* the global the query handler serialises
    lastKnownValues,   \* global ascii cache: cacheKey -> text
    lastReadTime,      \* global ascii cache: cacheKey -> time of the last non-empty read
    lastAlertTime,     \* Run's local lastAlertTime: tagName -> time
    observed,          \* the last response of GetPowertags
    stopReason,        \* why Run ended ("" while it runs)
    lastRead,          \* the ReadRegisters call of the step just taken by Run, if any
    lastGet,           \* the ascii cache read of the step just taken by Run, if any
    lastAlert,         \* the alert evaluation of the step just taken by Run, if any
    dispatched,        \* every SendEmbed call made by Run: <<tagName, cycleStart>>
    deliveries,        \* what each of those calls did: "off" | "sent" | "failed"
    discord,           \* Run's local `discord`: the notifier and its `enabled` flag
    logged,            \* rows handed to AppendData in the current cycle
    publishes,         \* assignments to latestReadings since the cycle started
    asciiReads,        \* cacheKey -> the last ReadAscii call made for it and the last
                       \* one that returned text
    callArgs,          \* arguments of a function called on its own
    callResult         \* what that call returned

vars == <<config, pc, now, client, sessions, cycleStart, tagIdx, regIdx, currentRow,
          currentCycleData, latestReadings, lastKnownValues, lastReadTime,
          lastAlertTime, observed, stopReason, lastRead, lastGet, lastAlert,
          dispatched, deliveries, discord, logged, publishes, asciiReads, callArgs,
          callResult>>

----------------------------------------------------------------------------
(* Settings (main.py:23-49), durations scaled as described above.           *)

pollInterval == 2
alertCooldown == 3
asciiReadInterval == 3
retries == 2
retryDelay == 1

\* thresholds, in hundredths: float(thresholds[...]) * 100
thresholds == [voltage |-> [low |-> 200 * 100, high |-> 250 * 100],
               current |-> [high |-> 1 * 100]]

\* time.time() when Run starts: seconds since 1970, larger than every window
Epoch == 10
\* cycles start while the clock is within MaxSpan of Epoch
MaxSpan == 4
MaxTime == Epoch + MaxSpan

----------------------------------------------------------------------------
(* Python values.  A value is a tagged record so that None, numbers and    *)
(* strings can live in the same dict.  Text is a sequence of byte codes.   *)

None == [t |-> "None"]
Float(c) == [t |-> "float", c |-> c]
Str(s) == [t |-> "str", s |-> s]
Regs(ws) == [t |-> "list", ws |-> ws]
Name(n) == [t |-> "name", n |-> n]
Time(x) == [t |-> "time", x |-> x]

\* "Unknown"
Unknown == Str(<<85, 110, 107, 110, 111, 119, 110>>)

\* Python truthiness: None, 0.0, "" and [] are falsy
Truthy(v) ==
    CASE v.t = "None" -> FALSE
      [] v.t = "float" -> v.c # 0
      [] v.t = "str" -> Len(v.s) > 0
      [] v.t = "list" -> Len(v.ws) > 0
      [] OTHER -> TRUE

\* dict.get(k, default) and d[k] = v
Get(d, k, default) == IF k \in DOMAIN d THEN d[k] ELSE default
Put(d, k, v) == [x \in (DOMAIN d) \cup {k} |-> IF x = k THEN v ELSE d[x]]
EmptyDict == [x \in {} |-> None]

Max(a, b) == IF a >= b THEN a ELSE b
Take(s, n) == SubSeq(s, 1, IF Len(s) < n THEN Len(s) ELSE n)

----------------------------------------------------------------------------
(* ModbusReader (main.py:151-184).  The Protocol Session is the            *)
(* environment: `beh` gives, for each of the `retries` attempts of one     *)
(* ReadRegisters call, what client.read_*_registers does on that attempt:  *)
(* raise ("exc"), answer an error response ("err"), or answer words ("ok").*)

Exc == [kind |-> "exc", registers |-> <<>>]
Err == [kind |-> "err", registers |-> <<>>]
Ok(ws) == [kind |-> "ok", registers |-> ws]

\* for _ in range(self.retries): try ... return response.registers[:count]
\* ... time.sleep(self.delay) ... return None
RECURSIVE ReadRegistersFrom(_, _, _)
ReadRegistersFrom(beh, i, count) ==
    IF i > retries
    THEN [result |-> None, attempts |-> i - 1, sleeps |-> i - 1, raised |-> ""]
    ELSE IF beh[i].kind = "ok"
         THEN [result |-> Regs(Take(beh[i].registers, count)),
               attempts |-> i, sleeps |-> i - 1, raised |-> ""]
         ELSE ReadRegistersFrom(beh, i + 1, count)

ReadRegistersOnce(beh, count) ==
    IF retries >= 1 /\ beh[1].kind = "ok"
    THEN [result |-> Regs(Take(beh[1].registers, count)),
          attempts |-> 1, sleeps |-> 0, raised |-> ""]
    ELSE [result |-> None, attempts |-> 1, sleeps |-> 1, raised |-> ""]

ReadRegisters(beh, count) == ReadRegistersFrom(beh, 1, count)

RECURSIVE Pow2(_)
Pow2(n) == IF n = 0 THEN 1 ELSE 2 * Pow2(n - 1)

\* round(struct.unpack(">f", struct.pack(">HH", w0, w1))[0], 2), in hundredths.
\* sign 1 bit, exponent 8 bits, mantissa 23 bits; exponents 1..150 and 0
\* (zero and denormals, which round to 0.0) are covered.
DecodeFloat(w0, w1) ==
    LET sign == w0 \div 32768
        exp == (w0 % 32768) \div 128
        mant == (w0 % 128) * 65536 + w1
        x == (8388608 + mant) * 100
        shift == 150 - exp
        mag == IF exp = 0 \/ shift > 31 THEN 0
               ELSE IF shift = 0 THEN x
               ELSE ((x \div Pow2(shift - 1)) + 1) \div 2
    IN  IF sign = 1 THEN 0 - mag ELSE mag

ReadFloatUnchecked(rr) ==
    IF rr.raised # "" THEN [raised |-> rr.raised, val |-> None]
    ELSE IF rr.result = None THEN [raised |-> "TypeError", val |-> None]
    ELSE IF Len(rr.result.ws) < 2 THEN [raised |-> "IndexError", val |-> None]
    ELSE [raised |-> "", val |-> Float(DecodeFloat(rr.result.ws[1], rr.result.ws[2]))]

\* ReadFloat: `if not registers: return None`, then registers[0], registers[1]
ReadFloat(rr) ==
    IF rr.raised # "" THEN [raised |-> rr.raised, val |-> None]
    ELSE IF ~Truthy(rr.result) THEN [raised |-> "", val |-> None]
    ELSE IF Len(rr.result.ws) < 2 THEN [raised |-> "IndexError", val |-> None]
    ELSE [raised |-> "", val |-> Float(DecodeFloat(rr.result.ws[1], rr.result.ws[2]))]

\* rawBytes.extend([(reg >> 8) & 0xFF, reg & 0xFF]) for each register
RECURSIVE RawBytes(_)
RawBytes(ws) ==
    IF ws = <<>> THEN <<>>
    ELSE <<(ws[1] \div 256) % 256, ws[1] % 256>> \o RawBytes(Tail(ws))

\* rstrip(b"\x00")
RECURSIVE RStrip(_)
RStrip(bs) ==
    IF bs # <<>> /\ bs[Len(bs)] = 0 THEN RStrip(SubSeq(bs, 1, Len(bs) - 1)) ELSE bs

\* decode("ascii", errors="ignore"): bytes above 127 are dropped
DecodeAscii(bs) == SelectSeq(bs, LAMBDA b : b < 128)

\* ReadAscii: `if not registers: return None`, else the decoded text
ReadAscii(rr) ==
    IF rr.raised # "" THEN [raised |-> rr.raised, val |-> None]
    ELSE IF ~Truthy(rr.result) THEN [raised |-> "", val |-> None]
    ELSE [raised |-> "", val |-> Str(DecodeAscii(RStrip(RawBytes(rr.result.ws))))]

----------------------------------------------------------------------------
(* CheckAlerts (main.py:210-225).  A message f"HIGH VOLTAGE: {voltage}V"   *)
(* is the pair <<"HIGH VOLTAGE", voltage>>.                                 *)

\* readings.get("voltage", "float"): the default is the string "float"
FloatWord == Str(<<102, 108, 111, 97, 116>>)

\* `x > float(t)` and `x < float(t)` raise TypeError unless x is a number
Comparable(v) == v.t = "float"

\* the comparisons of lines 218 and 220 taken as >= and <=
VoltageAlertsInclusive(voltage) ==
    IF ~Truthy(voltage) THEN <<>>
    ELSE IF voltage.c >= thresholds.voltage.high THEN << <<"HIGH VOLTAGE", voltage.c>> >>
    ELSE IF voltage.c <= thresholds.voltage.low THEN << <<"LOW VOLTAGE", voltage.c>> >>
    ELSE <<>>

VoltageAlerts(voltage) ==
    IF ~Truthy(voltage) THEN <<>>
    ELSE IF voltage.c > thresholds.voltage.high THEN << <<"HIGH VOLTAGE", voltage.c>> >>
    ELSE IF voltage.c < thresholds.voltage.low THEN << <<"LOW VOLTAGE", voltage.c>> >>
    ELSE <<>>

CurrentAlerts(current) ==
    IF Truthy(current) /\ current.c > thresholds.current.high
    THEN << <<"HIGH CURRENT", current.c>> >>
    ELSE <<>>

CheckAlerts(row) ==
    LET voltage == Get(row, "voltage", FloatWord)
        current == Get(row, "current", FloatWord)
    IN  IF Truthy(voltage) /\ ~Comparable(voltage)
        THEN [raised |-> "TypeError", alerts |-> <<>>]
        ELSE IF Truthy(current) /\ ~Comparable(current)
        THEN [raised |-> "TypeError", alerts |-> <<>>]
        ELSE [raised |-> "", alerts |-> VoltageAlerts(voltage) \o CurrentAlerts(current)]

----------------------------------------------------------------------------
(* PowerTagDiscordNotifier (main.py:82-136)                                *)

\* _Initialize: the values `enabled` can have after the constructor.  Without a
\* URL it stays False; with one it is True only if the first message got a 200.
Initialize(webhookUrl) == IF webhookUrl = "" THEN {FALSE} ELSE BOOLEAN

\* what building and executing the webhook can do inside SendEmbed
Executions == {"returns", "raises"}

\* the try of SendEmbed without its except
SendEmbedUncaught(notifier, execution) ==
    IF ~notifier.enabled THEN [raised |-> "", delivery |-> "off"]
    ELSE IF execution = "raises" THEN [raised |-> "Exception", delivery |-> "failed"]
    ELSE [raised |-> "", delivery |-> "sent"]

\* SendEmbed: nothing is done when not enabled; an exception is logged, not raised
SendEmbed(notifier, execution) ==
    IF ~notifier.enabled THEN [raised |-> "", delivery |-> "off"]
    ELSE IF execution = "raises" THEN [raised |-> "", delivery |-> "failed"]
    ELSE [raised |-> "", delivery |-> "sent"]

----------------------------------------------------------------------------
(* Configurations (settings.json).  registerMap is the dict of register    *)
(* definitions in insertion order, each with its key.  `device` is not a   *)
(* setting: it gives the words the field devices may hold in each          *)
(* register.                                                               *)
(*   voltage 0x435C0000 = 220.0, 0x43820000 = 260.0                        *)
(*   current 0x3F000000 = 0.5; frequency 0x42480000 = 50.0                 *)
(*   text    0x0000 = "", 0x4100 = "A", 0x4200 = "B"                       *)

Gateway(ip, name) == [ip |-> ip, name |-> name]
PowerTag(deviceId, tagName, gatewayName) ==
    [deviceId |-> deviceId, tagName |-> tagName, gatewayName |-> gatewayName]
Register(key, register, type, length) ==
    [key |-> key, register |-> register, type |-> type, length |-> length]

\* one entity; two float registers and a text register
ConfigPlant ==
    [gateways |-> <<Gateway("10.0.0.1", "Gateway1")>>,
     powertags |-> <<PowerTag(1, "TagA", "Gateway1")>>,
     registerMap |-> <<Register("voltage", 10, "float", 2),
                       Register("current", 12, "float", 2),
                       Register("name", 20, "ascii", 1)>>,
     device |-> [voltage |-> {<<17282, 0>>},
                 current |-> {<<16128, 0>>},
                 name |-> {<<0>>, <<16640>>, <<16896>>}],
     discordWebhook |-> ""]

\* two entities on two gateways; two float registers and one of an unknown type
ConfigPair ==
    [gateways |-> <<Gateway("10.0.0.1", "Gateway1"), Gateway("10.0.0.2", "Gateway2")>>,
     powertags |-> <<PowerTag(1, "TagA", "Gateway1"), PowerTag(2, "TagB", "Gateway2")>>,
     registerMap |-> <<Register("voltage", 10, "float", 2),
                       Register("current", 12, "float", 2),
                       Register("status", 30, "int", 1)>>,
     device |-> [voltage |-> {<<17282, 0>>},
                 current |-> {<<16128, 0>>},
                 status |-> {<<1>>}],
     discordWebhook |-> ""]

\* one entity; a float register declared with length 1
ConfigShort ==
    [gateways |-> <<Gateway("10.0.0.1", "Gateway1")>>,
     powertags |-> <<PowerTag(1, "TagA", "Gateway1")>>,
     registerMap |-> <<Register("voltage", 10, "float", 2),
                       Register("current", 12, "float", 2),
                       Register("frequency", 14, "float", 1)>>,
     device |-> [voltage |-> {<<17244, 0>>},
                 current |-> {<<16128, 0>>},
                 frequency |-> {<<16968, 0>>}],
     discordWebhook |-> ""]

\* one entity with two float registers, and a webhook for the notifier
ConfigNotify ==
    [gateways |-> <<Gateway("10.0.0.1", "Gateway1")>>,
     powertags |-> <<PowerTag(1, "TagA", "Gateway1")>>,
     registerMap |-> <<Register("voltage", 10, "float", 2),
                       Register("current", 12, "float", 2)>>,
     device |-> [voltage |-> {<<17282, 0>>},
                 current |-> {<<16128, 0>>}],
     discordWebhook |-> "https://discord.example/api/webhooks/1"]

Configs == {ConfigPlant, ConfigPair, ConfigShort, ConfigNotify}

\* two entities with the same name; a float, a text and an unknown register type
ConfigTwins ==
    [gateways |-> <<Gateway("10.0.0.1", "Gateway1")>>,
     powertags |-> <<PowerTag(1, "TagA", "Gateway1"), PowerTag(2, "TagA", "Gateway1")>>,
     registerMap |-> <<Register("voltage", 10, "float", 2),
                       Register("current", 12, "float", 2),
                       Register("name", 20, "ascii", 1),
                       Register("status", 30, "int", 1)>>,
     device |-> [voltage |-> {<<17244, 0>>},
                 current |-> {<<16128, 0>>},
                 name |-> {<<16640>>},
                 status |-> {<<1>>}],
     discordWebhook |-> ""]

gateWays == config.gateways
discordWebhookUrl == config.discordWebhook
powertags == config.powertags
registerMap == config.registerMap

\* what one attempt against the Protocol Session can do
Outcomes(reg) == {Exc, Err} \cup {Ok(ws) : ws \in config.device[reg.key]}

\* what the `retries` attempts of one ReadRegisters call can do
Behaviours(reg) == [1..retries -> Outcomes(reg)]

----------------------------------------------------------------------------
(* Run (main.py:227-318)                                                   *)

NoRead == [type |-> "", attempts |-> 0, sleeps |-> 0, exhausted |-> FALSE, raised |-> ""]
NoGet == [key |-> "", tag |-> "", reg |-> "", at |-> 0, calls |-> 0, fresh |-> None,
          before |-> None, val |-> None, prevAt |-> 0, prevFresh |-> None, prevHitAt |-> 0]
NoAsciiRead == [at |-> 0, fresh |-> None, hitAt |-> 0]
NoCall == [op |-> ""]
NoAlert == [tag |-> "", at |-> 0, alerts |-> <<>>, last |-> 0, sent |-> FALSE]

RunStart ==
    /\ pc = "connect"
    /\ now = Epoch
    /\ client = 0
    /\ sessions = [g \in 1..Len(config.gateways) |-> "none"]
    /\ cycleStart = 0
    /\ tagIdx = 0
    /\ regIdx = 0
    /\ currentRow = EmptyDict
    /\ currentCycleData = EmptyDict
    /\ latestReadings = EmptyDict
    /\ lastKnownValues = EmptyDict
    /\ lastReadTime = EmptyDict
    /\ lastAlertTime = EmptyDict
    /\ observed = EmptyDict
    /\ stopReason = ""
    /\ lastRead = NoRead
    /\ lastGet = NoGet
    /\ lastAlert = NoAlert
    /\ dispatched = <<>>
    /\ deliveries = <<>>
    /\ discord = [enabled |-> FALSE]
    /\ logged = <<>>
    /\ publishes = 0
    /\ asciiReads = EmptyDict

InitRun ==
    /\ config \in Configs
    /\ RunStart

Init ==
    /\ InitRun
    /\ callArgs = NoCall
    /\ callResult = NoCall

\* the loop entered again after the failure instead of being left
StopAndRetry(reason) ==
    /\ pc' = "cycle"
    /\ stopReason' = reason
    /\ sessions' = [sessions EXCEPT ![client] = "closed"]

\* except Exception: log; finally: client.close()  (main.py:315-318)
Stop(reason) ==
    /\ pc' = "stopped"
    /\ stopReason' = reason
    /\ sessions' = [sessions EXCEPT ![client] = "closed"]

\* the result of client.connect() not looked at
AfterConnectUnchecked(connected, last) == IF last THEN "cycle" ELSE "connect"

\* if not client.connect(): return; else the next gateway, then the loop
AfterConnect(connected, last) ==
    IF ~connected THEN "stopped" ELSE IF last THEN "cycle" ELSE "connect"

\* for gateway in gateWays: client = ModbusTcpClient(...); if not client.connect(): return
\* after the last gateway: discord = PowerTagDiscordNotifier(discordWebhookUrl)
Connect ==
    /\ pc = "connect"
    /\ client < Len(gateWays)
    /\ client' = client + 1
    /\ \E connected \in BOOLEAN :
         /\ pc' = AfterConnect(connected, client + 1 = Len(gateWays))
         /\ IF connected
            THEN /\ sessions' = [sessions EXCEPT ![client + 1] = "open"]
                 /\ IF client + 1 = Len(gateWays)
                    THEN \E enabled \in Initialize(discordWebhookUrl) :
                           discord' = [enabled |-> enabled]
                    ELSE UNCHANGED discord
                 /\ UNCHANGED stopReason
            ELSE /\ stopReason' = "connect"
                 /\ UNCHANGED <<sessions, discord>>
    /\ UNCHANGED <<config, now, cycleStart, tagIdx, regIdx, currentRow, currentCycleData,
                   latestReadings, lastKnownValues, lastReadTime, lastAlertTime, observed,
                   lastRead, lastGet, lastAlert, dispatched, deliveries, logged, publishes,
                   asciiReads, callArgs, callResult>>

\* currentRow = {"Tag": tagName, "Timestamp": cycleStart}
FreshRow(i, cs) == ("Tag" :> Name(powertags[i].tagName)) @@ ("Timestamp" :> Time(cs))

EnterTagEarly(i, cs) ==
    IF i >= Len(powertags)
    THEN /\ pc' = "publish"
         /\ UNCHANGED <<tagIdx, regIdx, currentRow>>
    ELSE /\ tagIdx' = i
         /\ regIdx' = 1
         /\ currentRow' = FreshRow(i, cs)
         /\ pc' = IF Len(registerMap) = 0 THEN "row" ELSE "read"

\* the position after `for tagInfo in powertags:` reaches entity i
EnterTag(i, cs) ==
    IF i > Len(powertags)
    THEN /\ pc' = "publish"
         /\ UNCHANGED <<tagIdx, regIdx, currentRow>>
    ELSE /\ tagIdx' = i
         /\ regIdx' = 1
         /\ currentRow' = FreshRow(i, cs)
         /\ pc' = IF Len(registerMap) = 0 THEN "row" ELSE "read"

\* while True: cycleStart = time.time(); currentCycleData = {}
StartCycle ==
    /\ pc = "cycle"
    /\ now <= MaxTime
    /\ cycleStart' = now
    /\ currentCycleData' = EmptyDict
    /\ logged' = <<>>
    /\ publishes' = 0
    /\ EnterTag(1, now)
    /\ lastRead' = NoRead /\ lastGet' = NoGet /\ lastAlert' = NoAlert
    /\ UNCHANGED <<config, discord, now, client, sessions, latestReadings, lastKnownValues,
                   lastReadTime, lastAlertTime, observed, stopReason, dispatched, deliveries,
                   asciiReads, callArgs, callResult>>

\* the key left out of the row when there is no value
StoreValueSkipNone(key, val) ==
    /\ currentRow' = IF val = None THEN currentRow ELSE Put(currentRow, key, val)
    /\ IF regIdx < Len(registerMap)
       THEN pc' = "read" /\ regIdx' = regIdx + 1
       ELSE pc' = "row" /\ regIdx' = regIdx

\* currentRow[key] = val, then the next register or the end of the register loop
StoreValue(key, val) ==
    /\ currentRow' = Put(currentRow, key, val)
    /\ IF regIdx < Len(registerMap)
       THEN pc' = "read" /\ regIdx' = regIdx + 1
       ELSE pc' = "row" /\ regIdx' = regIdx

\* regType == "float": val = registerReader.ReadFloat(regAddr, deviceId, registerLength)
ReadFloatRegister ==
    /\ pc = "read"
    /\ registerMap[regIdx].type = "float"
    /\ \E beh \in Behaviours(registerMap[regIdx]) :
         LET reg == registerMap[regIdx]
             rr == ReadRegisters(beh, reg.length)
             rf == ReadFloat(rr)
         IN  /\ now' = now + rr.sleeps * retryDelay
             /\ lastRead' = [type |-> "float", attempts |-> rr.attempts,
                             sleeps |-> rr.sleeps, exhausted |-> (rr.result = None),
                             raised |-> rf.raised]
             /\ IF rf.raised # ""
                THEN Stop(rf.raised) /\ UNCHANGED <<currentRow, regIdx>>
                ELSE StoreValue(reg.key, rf.val) /\ UNCHANGED <<stopReason, sessions>>
    /\ lastGet' = NoGet /\ lastAlert' = NoAlert
    /\ UNCHANGED <<config, discord, client, cycleStart, tagIdx, currentCycleData, latestReadings,
                   lastKnownValues, lastReadTime, lastAlertTime, observed,
                   dispatched, deliveries, logged, publishes, asciiReads, callArgs, callResult>>

\* cacheKey = f"{tagName}_{key}"
CacheKey(tagName, key) == tagName \o "_" \o key

StaleDefaultNow(readTime, cacheKey, cs) ==
    cs - Get(readTime, cacheKey, cs) > asciiReadInterval

\* cycleStart - lastReadTime.get(cacheKey, 0) > asciiReadInterval
Stale(readTime, cacheKey, cs) == cs - Get(readTime, cacheKey, 0) > asciiReadInterval

CacheUpdateNoTimestamp(known, readTime, cacheKey, cs, fresh) ==
    [known |-> IF Truthy(fresh) THEN Put(known, cacheKey, fresh) ELSE known,
     readTime |-> readTime]

CacheUpdateStoresEmpty(known, readTime, cacheKey, cs, fresh) ==
    LET hit == fresh # None
    IN  [known |-> IF hit THEN Put(known, cacheKey, fresh) ELSE known,
         readTime |-> IF hit THEN Put(readTime, cacheKey, cs) ELSE readTime]

\* if val: lastKnownValues[cacheKey] = val; lastReadTime[cacheKey] = cycleStart
\* val = lastKnownValues.get(cacheKey, "Unknown")
\* (`fresh` is what ReadAscii returned for an entry that was stale)
CacheUpdate(known, readTime, cacheKey, cs, fresh) ==
    LET hit == Truthy(fresh)
        known2 == IF hit THEN Put(known, cacheKey, fresh) ELSE known
        readTime2 == IF hit THEN Put(readTime, cacheKey, cs) ELSE readTime
    IN  [known |-> known2, readTime |-> readTime2]

\* regType == "ascii"  (main.py:278-285)
ReadAsciiRegister ==
    /\ pc = "read"
    /\ registerMap[regIdx].type = "ascii"
    /\ LET reg == registerMap[regIdx]
           cacheKey == CacheKey(powertags[tagIdx].tagName, reg.key)
           read == Stale(lastReadTime, cacheKey, cycleStart)
       IN  \E beh \in (IF read THEN Behaviours(reg) ELSE {<<>>}) :
             LET rr == IF read THEN ReadRegisters(beh, reg.length)
                       ELSE [result |-> None, attempts |-> 0, sleeps |-> 0, raised |-> ""]
                 ra == ReadAscii(rr)
                 got == IF read
                        THEN CacheUpdate(lastKnownValues, lastReadTime, cacheKey,
                                         cycleStart, ra.val)
                        ELSE [known |-> lastKnownValues, readTime |-> lastReadTime]
                 val == Get(got.known, cacheKey, Unknown)
                 prev == Get(asciiReads, cacheKey, NoAsciiRead)
             IN  /\ now' = now + rr.sleeps * retryDelay
                 /\ lastRead' = IF read
                                THEN [type |-> "ascii", attempts |-> rr.attempts,
                                      sleeps |-> rr.sleeps, exhausted |-> (rr.result = None),
                                      raised |-> ra.raised]
                                ELSE NoRead
                 /\ lastGet' = [key |-> cacheKey, tag |-> powertags[tagIdx].tagName,
                                reg |-> reg.key, at |-> cycleStart,
                                calls |-> IF read THEN 1 ELSE 0, fresh |-> ra.val,
                                before |-> Get(lastKnownValues, cacheKey, Unknown),
                                val |-> val, prevAt |-> prev.at,
                                prevFresh |-> prev.fresh, prevHitAt |-> prev.hitAt]
                 /\ asciiReads' = IF read
                                  THEN Put(asciiReads, cacheKey,
                                           [at |-> cycleStart, fresh |-> ra.val,
                                            hitAt |-> IF Truthy(ra.val) THEN cycleStart
                                                      ELSE prev.hitAt])
                                  ELSE asciiReads
                 /\ lastKnownValues' = got.known
                 /\ lastReadTime' = got.readTime
                 /\ StoreValue(reg.key, val)
    /\ lastAlert' = NoAlert
    /\ UNCHANGED <<config, discord, client, sessions, cycleStart, tagIdx, currentCycleData,
                   latestReadings, lastAlertTime, observed, stopReason,
                   dispatched, deliveries, logged, publishes, callArgs, callResult>>

\* any other regType: val = None
ReadOtherRegister ==
    /\ pc = "read"
    /\ registerMap[regIdx].type \notin {"float", "ascii"}
    /\ StoreValue(registerMap[regIdx].key, None)
    /\ lastRead' = NoRead /\ lastGet' = NoGet /\ lastAlert' = NoAlert
    /\ UNCHANGED <<config, discord, now, client, sessions, cycleStart, tagIdx, currentCycleData,
                   latestReadings, lastKnownValues, lastReadTime, lastAlertTime, observed,
                   stopReason, dispatched, deliveries, logged, publishes, asciiReads, callArgs, callResult>>

AlertDueAtCooldown(found, last, tagName, cs) ==
    found # <<>> /\ cs - Get(last, tagName, 0) >= alertCooldown

\* alerts and (cycleStart - lastAlertTime.get(tagName, 0) > alertCooldown)
AlertDue(found, last, tagName, cs) ==
    found # <<>> /\ cs - Get(last, tagName, 0) > alertCooldown

\* currentCycleData[tagName] = currentRow  (main.py:291-292): the row goes to the
\* cycle's own dict, the global is left alone
StoreRowLive(latest, data, tagName, row) ==
    [latest |-> Put(latest, tagName, row), data |-> Put(data, tagName, row)]

StoreRow(latest, data, tagName, row) ==
    [latest |-> latest, data |-> Put(data, tagName, row)]

\* currentCycleData[tagName] = currentRow; AppendData(currentRow); CheckAlerts;
\* discord.SendEmbed(...); lastAlertTime[tagName] = cycleStart   (main.py:291-306)
ProcessRow ==
    /\ pc = "row"
    /\ LET tagName == powertags[tagIdx].tagName
           ca == CheckAlerts(currentRow)
           due == AlertDue(ca.alerts, lastAlertTime, tagName, cycleStart)
           stored == StoreRow(latestReadings, currentCycleData, tagName, currentRow)
       IN  /\ currentCycleData' = stored.data
           /\ latestReadings' = stored.latest
           /\ \E written \in BOOLEAN :
                IF ~written
                THEN /\ Stop("IOError")
                     /\ lastAlert' = NoAlert
                     /\ UNCHANGED <<logged, dispatched, deliveries, lastAlertTime,
                                    tagIdx, regIdx, currentRow>>
                ELSE /\ logged' = Append(logged, currentRow)
                     /\ IF ca.raised # ""
                        THEN /\ Stop(ca.raised)
                             /\ lastAlert' = NoAlert
                             /\ UNCHANGED <<dispatched, deliveries, lastAlertTime,
                                            tagIdx, regIdx, currentRow>>
                        ELSE /\ lastAlert' = [tag |-> tagName, at |-> cycleStart,
                                              alerts |-> ca.alerts,
                                              last |-> Get(lastAlertTime, tagName, 0),
                                              sent |-> due]
                             /\ IF ~due
                                THEN /\ EnterTag(tagIdx + 1, cycleStart)
                                     /\ UNCHANGED <<dispatched, deliveries, lastAlertTime,
                                                    stopReason, sessions>>
                                ELSE \E execution \in IF discord.enabled
                                                      THEN Executions ELSE {"returns"} :
                                       LET se == SendEmbed(discord, execution)
                                       IN  /\ dispatched' =
                                                Append(dispatched, <<tagName, cycleStart>>)
                                           /\ deliveries' = Append(deliveries, se.delivery)
                                           /\ IF se.raised # ""
                                              THEN /\ Stop(se.raised)
                                                   /\ UNCHANGED <<lastAlertTime, tagIdx,
                                                                  regIdx, currentRow>>
                                              ELSE /\ lastAlertTime' =
                                                        Put(lastAlertTime, tagName, cycleStart)
                                                   /\ EnterTag(tagIdx + 1, cycleStart)
                                                   /\ UNCHANGED <<stopReason, sessions>>
    /\ lastRead' = NoRead /\ lastGet' = NoGet
    /\ UNCHANGED <<config, discord, now, client, cycleStart, lastKnownValues,
                   lastReadTime, observed, publishes, asciiReads, callArgs, callResult>>

\* latestReadings = currentCycleData   (main.py:309)
Publish ==
    /\ pc = "publish"
    /\ latestReadings' = currentCycleData
    /\ publishes' = publishes + 1
    /\ pc' = "sleep"
    /\ lastRead' = NoRead /\ lastGet' = NoGet /\ lastAlert' = NoAlert
    /\ UNCHANGED <<config, discord, now, client, sessions, cycleStart, tagIdx, regIdx, currentRow,
                   currentCycleData, lastKnownValues, lastReadTime, lastAlertTime,
                   observed, stopReason, dispatched, deliveries, logged, asciiReads, callArgs, callResult>>

\* the remaining time without the max(0, ...)
SleepTimeUnclamped(cs, t) == pollInterval - (t - cs)

\* elapsed = time.time() - cycleStart; time.sleep(max(0, pollInterval - elapsed))
SleepTime(cs, t) == Max(0, pollInterval - (t - cs))

Sleep ==
    /\ pc = "sleep"
    /\ now' = now + SleepTime(cycleStart, now)
    /\ pc' = "cycle"
    /\ UNCHANGED <<config, discord, client, sessions, cycleStart, tagIdx, regIdx, currentRow,
                   currentCycleData, latestReadings, lastKnownValues, lastReadTime,
                   lastAlertTime, observed, stopReason, lastRead, lastGet, lastAlert,
                   dispatched, deliveries, logged, publishes, asciiReads, callArgs, callResult>>

\* GetPowertags (main.py:320-322): return jsonify(latestReadings)
GetPowertags ==
    /\ observed' = latestReadings
    /\ UNCHANGED <<config, discord, pc, now, client, sessions, cycleStart, tagIdx, regIdx,
                   currentRow, currentCycleData, latestReadings, lastKnownValues,
                   lastReadTime, lastAlertTime, stopReason, lastRead, lastGet, lastAlert,
                   dispatched, deliveries, logged, publishes, asciiReads, callArgs, callResult>>

Next ==
    \/ Connect
    \/ StartCycle
    \/ ReadFloatRegister
    \/ ReadAsciiRegister
    \/ ReadOtherRegister
    \/ ProcessRow
    \/ Publish
    \/ Sleep
    \/ GetPowertags

Spec == Init /\ [][Next]_vars

\* Run with two entities of one name
InitTwins ==
    /\ config = ConfigTwins
    /\ RunStart
    /\ callArgs = NoCall
    /\ callResult = NoCall

SpecTwins == InitTwins /\ [][Next]_vars

----------------------------------------------------------------------------
(* ModbusReader.ReadFloat called on its own: every behaviour of the        *)
(* session over `retries` attempts, every word count 1..MaxCount.          *)

runVars == <<config, pc, now, client, sessions, cycleStart, tagIdx, regIdx, currentRow,
             currentCycleData, latestReadings, lastKnownValues, lastReadTime,
             lastAlertTime, observed, stopReason, lastRead, lastGet, lastAlert,
             dispatched, deliveries, discord, logged, publishes, asciiReads>>

MaxCount == 3

\* answers of 0, 1, 2 and 3 words (0x4248 = 50.0 with one word, 0x43820000 = 260.0)
ReaderWords == {<<>>, <<16968>>, <<17282, 0>>, <<17282, 0, 7>>}
ReaderBehaviours == [1..retries -> {Exc, Err} \cup {Ok(ws) : ws \in ReaderWords}]

InitReader ==
    /\ InitRun
    /\ callArgs \in {[op |-> "ReadFloat", beh |-> b, count |-> c] :
                       b \in ReaderBehaviours, c \in 1..MaxCount}
    /\ callResult = NoCall

CallReadFloat ==
    /\ callArgs.op = "ReadFloat"
    /\ callResult = NoCall
    /\ LET rr == ReadRegisters(callArgs.beh, callArgs.count)
       IN  callResult' = [op |-> "ReadFloat", rr |-> rr, rf |-> ReadFloat(rr)]
    /\ UNCHANGED <<runVars, callArgs>>

SpecReader == InitReader /\ [][CallReadFloat]_vars

----------------------------------------------------------------------------
(* CheckAlerts called on its own on rows whose voltage and current are a   *)
(* number, None, or not a key of the row at all.                           *)

Absent == [t |-> "absent"]
VoltageInputs == {Absent, None, Float(0), Float(1), Float(18000), Float(20000),
                  Float(22000), Float(25000), Float(26000)}
CurrentInputs == {Absent, None, Float(0), Float(50), Float(100), Float(150)}

With(row, key, v) == IF v = Absent THEN row ELSE Put(row, key, v)

AlertRows ==
    {With(With(("Tag" :> Name("TagA")) @@ ("Timestamp" :> Time(Epoch)), "voltage", v),
          "current", c) : v \in VoltageInputs, c \in CurrentInputs}

InitAlerts ==
    /\ InitRun
    /\ callArgs \in {[op |-> "CheckAlerts", row |-> r] : r \in AlertRows}
    /\ callResult = NoCall

CallCheckAlerts ==
    /\ callArgs.op = "CheckAlerts"
    /\ callResult = NoCall
    /\ LET ca == CheckAlerts(callArgs.row)
       IN  callResult' = [op |-> "CheckAlerts", raised |-> ca.raised, alerts |-> ca.alerts]
    /\ UNCHANGED <<runVars, callArgs>>

SpecAlerts == InitAlerts /\ [][CallCheckAlerts]_vars

----------------------------------------------------------------------------
(* The ascii branch of Run (main.py:278-285) taken on its own, for any     *)
(* entity name and register key, some with the "_" of the cache key in     *)
(* them, at any time and with any result of ReadAscii.                     *)

PairTags == {"a", "a_b"}
PairKeys == {"c", "b_c"}
PairTexts == {None, Str(<<>>), Str(<<65>>), Str(<<66>>)}
\* the branch is taken again in the same cycle or once the entry has become stale
PairDelays == {0, asciiReadInterval + 1}

InitCache ==
    /\ InitRun
    /\ config = ConfigPlant
    /\ callArgs = NoCall
    /\ callResult = NoCall

CallAsciiBranch ==
    \E tagName \in PairTags, key \in PairKeys, fresh \in PairTexts, dt \in PairDelays :
      LET cacheKey == CacheKey(tagName, key)
          read == Stale(lastReadTime, cacheKey, now + dt)
          got == IF read
                 THEN CacheUpdate(lastKnownValues, lastReadTime, cacheKey, now + dt, fresh)
                 ELSE [known |-> lastKnownValues, readTime |-> lastReadTime]
      IN  /\ now + dt <= MaxTime
          /\ now' = now + dt
          /\ lastKnownValues' = got.known
          /\ lastReadTime' = got.readTime
          /\ callArgs' = [op |-> "AsciiBranch", tagName |-> tagName, key |-> key]
          /\ callResult' = [op |-> "AsciiBranch", read |-> read,
                            val |-> Get(got.known, cacheKey, Unknown)]
          /\ UNCHANGED <<config, discord, pc, client, sessions, cycleStart, tagIdx, regIdx,
                         currentRow, currentCycleData, latestReadings, lastAlertTime,
                         observed, stopReason, lastRead, lastGet, lastAlert, dispatched,
                         deliveries, logged, publishes, asciiReads>>

SpecCache == InitCache /\ [][CallAsciiBranch]_vars

----------------------------------------------------------------------------
(* Properties                                                              *)

TagNames == {powertags[i].tagName : i \in 1..Len(powertags)}
RegisterKeys == {registerMap[j].key : j \in 1..Len(registerMap)}
RowTime(row) == row["Timestamp"].x

\* a snapshot is empty (nothing published yet) or holds one complete row for every
\* entity, all of one cycle
WholeCycle(snap) ==
    /\ DOMAIN snap = {} \/ DOMAIN snap = TagNames
    /\ \A a \in DOMAIN snap : DOMAIN snap[a] = {"Tag", "Timestamp"} \cup RegisterKeys
    /\ \A a, b \in DOMAIN snap : RowTime(snap[a]) = RowTime(snap[b])

\* C1: whatever GetPowertags returns, at any point of a cycle in progress, is the
\* complete snapshot of one completed cycle (or the initial empty one): a row for
\* every entity, all rows with the same cycle timestamp, and no row of the cycle
\* that has not been published yet.
C1_ReaderSeesWholeCycle ==
    /\ WholeCycle(observed)
    /\ publishes = 0 => \A a \in DOMAIN observed : RowTime(observed[a]) # cycleStart

\* a reader got the complete previous snapshot while the second entity of the next
\* cycle was being processed
C1_Witness ==
    /\ pc = "row" /\ tagIdx = 2
    /\ DOMAIN currentCycleData # {}
    /\ Cardinality(DOMAIN observed) = 2
    /\ observed = latestReadings
    /\ \A a \in DOMAIN observed : RowTime(observed[a]) < cycleStart

\* C2: latestReadings is assigned exactly once per completed cycle, by the step
\* that ends the cycle, after a row of every entity was processed, and it then holds
\* that cycle's rows; no other step (in particular none of a cycle that stops
\* half-way) changes it.
C2_PublishedOncePerCycle ==
    [][/\ latestReadings' # latestReadings =>
            /\ pc = "publish" /\ pc' = "sleep"
            /\ publishes = 0
            /\ Len(logged) = Len(powertags)
            /\ latestReadings' = currentCycleData
            /\ \A a \in DOMAIN latestReadings' : RowTime(latestReadings'[a]) = cycleStart
       /\ publishes' <= 1
       /\ pc' \in {"sleep", "cycle"} /\ cycleStart' > 0 => publishes' = 1
       /\ pc' \in {"read", "row", "publish"} => publishes' = 0]_vars

\* a second cycle stopped half-way and the snapshot is still the first cycle's
C2_Witness ==
    /\ pc = "stopped" /\ stopReason = "IOError"
    /\ publishes = 0
    /\ DOMAIN currentCycleData # {}
    /\ Cardinality(DOMAIN latestReadings) = 2
    /\ \A a \in DOMAIN latestReadings : RowTime(latestReadings[a]) < cycleStart

DispatchesOf(tagName) == {i \in 1..Len(dispatched) : dispatched[i][1] = tagName}

\* C3: Run calls SendEmbed for an entity in a cycle exactly when the row has an
\* alert and cycleStart - lastAlertTime (0 when none) > alertCooldown; a dispatch
\* sets lastAlertTime to the cycle timestamp; a violating cycle is suppressed only
\* by an earlier dispatch at most alertCooldown before it (so the first violating
\* cycle dispatches); any two dispatches for an entity are more than alertCooldown
\* apart.
C3_AlertCooldown ==
    /\ lastAlert.tag # "" =>
        /\ lastAlert.sent <=> /\ lastAlert.alerts # <<>>
                              /\ lastAlert.at - lastAlert.last > alertCooldown
        /\ lastAlert.sent =>
             /\ dispatched[Len(dispatched)] = <<lastAlert.tag, lastAlert.at>>
             /\ lastAlertTime[lastAlert.tag] = lastAlert.at
        /\ lastAlert.alerts # <<>> /\ ~lastAlert.sent =>
             \E i \in DispatchesOf(lastAlert.tag) :
                /\ dispatched[i][2] < lastAlert.at
                /\ lastAlert.at - dispatched[i][2] <= alertCooldown
    /\ \A tagName \in TagNames :
        /\ tagName \in DOMAIN lastAlertTime <=> DispatchesOf(tagName) # {}
        /\ \A i \in DispatchesOf(tagName) :
             /\ dispatched[i][2] <= lastAlertTime[tagName]
             /\ \A j \in DispatchesOf(tagName) :
                  i < j => dispatched[j][2] - dispatched[i][2] > alertCooldown

\* an entity was alerted, a violating cycle inside the cooldown was suppressed, and a
\* later violating cycle dispatched again
C3_Witness ==
    /\ lastAlert.sent
    /\ Cardinality(DispatchesOf(lastAlert.tag)) = 2
    /\ \E a \in DOMAIN latestReadings :
          /\ a = lastAlert.tag
          /\ CheckAlerts(latestReadings[a]).alerts # <<>>
          /\ RowTime(latestReadings[a]) - dispatched[1][2] <= alertCooldown
          /\ RowTime(latestReadings[a]) > dispatched[1][2]

\* C4 as claimed: a cache read made within asciiReadInterval after the cache read
\* that last called ReadAscii for the same (entity, register) calls ReadAscii no
\* second time and returns the value the cache held, whatever that ReadAscii
\* returned.
C4_NoSecondReadWhateverOutcome ==
    (/\ lastGet.key # ""
     /\ 0 < lastGet.prevAt /\ lastGet.prevAt < lastGet.at
     /\ lastGet.at - lastGet.prevAt <= asciiReadInterval)
    => lastGet.calls = 0 /\ lastGet.val = lastGet.before

\* C4 as amended: a cache read made within asciiReadInterval after a ReadAscii that
\* returned text (non-empty) calls ReadAscii no second time and returns that text.
C4_NoSecondReadAfterText ==
    (/\ lastGet.key # ""
     /\ 0 < lastGet.prevAt /\ lastGet.prevAt < lastGet.at
     /\ lastGet.at - lastGet.prevAt <= asciiReadInterval
     /\ Truthy(lastGet.prevFresh))
    => /\ lastGet.calls = 0
       /\ lastGet.val = lastGet.before
       /\ lastGet.val = lastGet.prevFresh

\* the cycle after one that read text is served from the cache
C4_Witness ==
    /\ lastGet.key # ""
    /\ 0 < lastGet.prevAt /\ lastGet.prevAt < lastGet.at
    /\ lastGet.at - lastGet.prevAt <= asciiReadInterval
    /\ Truthy(lastGet.prevFresh)
    /\ lastGet.calls = 0
    /\ currentRow[lastGet.reg] = lastGet.prevFresh

\* C5: a cache read made more than asciiReadInterval after the last ReadAscii that
\* returned text for the pair (or when there was none) calls ReadAscii exactly once;
\* that one call makes between 1 and `retries` attempts against the session.
C5_StaleEntryReadOnce ==
    (lastGet.key # "" /\ lastGet.at - lastGet.prevHitAt > asciiReadInterval)
    => /\ lastGet.calls = 1
       /\ lastRead.type = "ascii"
       /\ lastRead.attempts \in 1..retries

\* an entry that had been read is read again once the interval has elapsed
C5_Witness ==
    /\ lastGet.key # ""
    /\ lastGet.prevHitAt > 0
    /\ lastGet.at - lastGet.prevHitAt > asciiReadInterval
    /\ lastGet.calls = 1
    /\ Truthy(lastGet.fresh)

\* C6: lastKnownValues never loses a key, and an entry is created or changed only by
\* the cache read of its own pair, when that read called ReadAscii and got text,
\* and it then holds that text; every other cache read returns what the cache held
\* before it ("Unknown" when it held nothing).
C6_CacheChangesOnlyOnText ==
    [][/\ DOMAIN lastKnownValues \subseteq DOMAIN lastKnownValues'
       /\ \A k \in DOMAIN lastKnownValues' :
            (k \notin DOMAIN lastKnownValues \/ lastKnownValues'[k] # lastKnownValues[k])
            => /\ lastGet'.key = k
               /\ lastGet'.calls = 1
               /\ Truthy(lastGet'.fresh)
               /\ lastKnownValues'[k] = lastGet'.fresh
       /\ lastGet'.key # "" =>
            IF lastGet'.calls = 1 /\ Truthy(lastGet'.fresh)
            THEN /\ lastGet'.val = lastGet'.fresh
                 /\ lastKnownValues'[lastGet'.key] = lastGet'.fresh
            ELSE /\ lastGet'.val = lastGet'.before
                 /\ lastGet'.key \in DOMAIN lastKnownValues' =>
                      lastKnownValues'[lastGet'.key] = lastGet'.before
                 /\ lastGet'.key \notin DOMAIN lastKnownValues' =>
                      lastGet'.before = Unknown]_vars

\* a refresh that read the empty string left the text cached earlier in place
C6_Witness ==
    /\ lastGet.key # ""
    /\ lastGet.calls = 1
    /\ lastGet.fresh = Str(<<>>)
    /\ lastGet.before # Unknown
    /\ lastKnownValues[lastGet.key] = lastGet.before
    /\ currentRow[lastGet.reg] = lastGet.before

OkAttempts(beh) == {i \in 1..retries : beh[i].kind = "ok"}
FirstOk(beh) == CHOOSE i \in OkAttempts(beh) : \A j \in OkAttempts(beh) : i <= j

\* C7: ReadRegisters makes at most `retries` attempts; it returns the first `count`
\* words of the first attempt that succeeds, having made no attempt after it and
\* slept once after each failed attempt before it; when every attempt fails it has
\* slept `retries` times and returns None; it never raises.
C7_RetryPolicy ==
    callResult.op = "ReadFloat" =>
        LET rr == callResult.rr
            beh == callArgs.beh
        IN  /\ rr.raised = ""
            /\ rr.attempts <= retries
            /\ OkAttempts(beh) # {} =>
                 /\ rr.result = Regs(Take(beh[FirstOk(beh)].registers, callArgs.count))
                 /\ rr.attempts = FirstOk(beh)
                 /\ rr.sleeps = FirstOk(beh) - 1
            /\ OkAttempts(beh) = {} =>
                 /\ rr.result = None
                 /\ rr.attempts = retries
                 /\ rr.sleeps = retries

\* the first attempt raised, the second answered more words than asked for
C7_Witness ==
    /\ callResult.op = "ReadFloat"
    /\ callArgs.beh[1].kind = "exc"
    /\ callArgs.beh[2] = Ok(<<17282, 0, 7>>)
    /\ callArgs.count = 2
    /\ callResult.rr.result = Regs(<<17282, 0>>)
    /\ callResult.rr.sleeps = 1

\* C8: the step of Run that reads a float register whose ReadRegisters exhausted its
\* retries does not stop the loop: it stores None under the register's key in the
\* entity's row and moves on to the next register (or to the end of the row).
C8_ExhaustedReadGoesOn ==
    [][(/\ pc = "read"
        /\ pc' # pc \/ regIdx' # regIdx
        /\ lastRead'.type = "float"
        /\ lastRead'.exhausted)
       => /\ stopReason' = ""
          /\ tagIdx' = tagIdx
          /\ currentRow' = Put(currentRow, registerMap[regIdx].key, None)
          /\ IF regIdx < Len(registerMap)
             THEN pc' = "read" /\ regIdx' = regIdx + 1
             ELSE pc' = "row"]_vars

\* a cycle in which the first entity's voltage read exhausted its retries went on
\* to the second entity and published both rows
C8_Witness ==
    /\ pc = "sleep"
    /\ DOMAIN latestReadings = {"TagA", "TagB"}
    /\ latestReadings["TagA"]["voltage"] = None
    /\ latestReadings["TagB"]["voltage"] # None
    /\ RowTime(latestReadings["TagB"]) = cycleStart

\* C9 as claimed: when the read failed or gave fewer than 2 words, ReadFloat returns
\* None and raises nothing.
C9_ShortReadGivesNone ==
    (/\ callResult.op = "ReadFloat"
     /\ callResult.rr.result = None \/ Len(callResult.rr.result.ws) < 2)
    => callResult.rf.raised = "" /\ callResult.rf.val = None

IsNumber(v) == v.t = "float"

ExpectedVoltage(v) ==
    IF IsNumber(v) /\ v.c > thresholds.voltage.high THEN << <<"HIGH VOLTAGE", v.c>> >>
    ELSE IF IsNumber(v) /\ v.c < thresholds.voltage.low THEN << <<"LOW VOLTAGE", v.c>> >>
    ELSE <<>>

ExpectedCurrent(c) ==
    IF IsNumber(c) /\ c.c > thresholds.current.high THEN << <<"HIGH CURRENT", c.c>> >>
    ELSE <<>>

\* C10 as claimed: for a row with a voltage and a current value (a number or None),
\* CheckAlerts returns the high-voltage message when the voltage is a number above
\* voltage.high, else the low-voltage message when it is a number below voltage.low,
\* the high-current message when the current is a number above current.high, and
\* nothing else; 0 counts as a number.
C10_AlertsAsSpecified ==
    (/\ callResult.op = "CheckAlerts"
     /\ "voltage" \in DOMAIN callArgs.row
     /\ "current" \in DOMAIN callArgs.row)
    => /\ callResult.raised = ""
       /\ callResult.alerts = ExpectedVoltage(callArgs.row["voltage"])
                                \o ExpectedCurrent(callArgs.row["current"])

AlertKinds(alerts) == {alerts[i][1] : i \in 1..Len(alerts)}
VoltageKinds == {"HIGH VOLTAGE", "LOW VOLTAGE"}
CurrentKinds == {"HIGH CURRENT"}

\* C11: a voltage exactly equal to voltage.high or to voltage.low gives no voltage
\* alert, and a current exactly equal to current.high gives no current alert.
C11_BoundariesExclusive ==
    (callResult.op = "CheckAlerts" /\ callResult.raised = "")
    => LET row == callArgs.row
       IN  /\ ("voltage" \in DOMAIN row
               /\ row["voltage"] \in {Float(thresholds.voltage.high),
                                      Float(thresholds.voltage.low)})
              => AlertKinds(callResult.alerts) \cap VoltageKinds = {}
           /\ ("current" \in DOMAIN row
               /\ row["current"] = Float(thresholds.current.high))
              => AlertKinds(callResult.alerts) \cap CurrentKinds = {}

\* CheckAlerts returned nothing for a row with the voltage at voltage.high and the
\* current at current.high
C11_Witness ==
    /\ callResult.op = "CheckAlerts"
    /\ callResult.raised = ""
    /\ Get(callArgs.row, "voltage", None) = Float(thresholds.voltage.high)
    /\ Get(callArgs.row, "current", None) = Float(thresholds.current.high)
    /\ callResult.alerts = <<>>

\* C12 as claimed: for a row whose voltage or current is None, or that has no
\* voltage or no current key because the schema defines no such register,
\* CheckAlerts raises nothing and returns no alert for that dimension.
C12_AbsentGivesNoAlertNoError ==
    callResult.op = "CheckAlerts"
    => LET row == callArgs.row
       IN  /\ (Get(row, "voltage", None) = None \/ Get(row, "current", None) = None)
              => callResult.raised = ""
           /\ Get(row, "voltage", None) = None
              => AlertKinds(callResult.alerts) \cap VoltageKinds = {}
           /\ Get(row, "current", None) = None
              => AlertKinds(callResult.alerts) \cap CurrentKinds = {}

\* C13 as claimed: when the cycle loop has stopped, every session opened by the
\* connection loop, one per configured gateway, is closed.
C13_StoppedLoopClosedEverySession ==
    (pc = "stopped" /\ stopReason # "connect")
    => \A g \in 1..Len(gateWays) : sessions[g] = "closed"

\* C14: once the loop has been left on an unexpected failure it stays left: from then
\* on no register is read, no row is logged, no alert is dispatched, the clock of
\* the scheduler does not move and latestReadings is never assigned again.
C14_FailStop ==
    [][stopReason \notin {"", "connect"}
       => /\ pc' = "stopped"
          /\ UNCHANGED <<stopReason, now, cycleStart, tagIdx, regIdx, currentRow,
                         currentCycleData, latestReadings, lastKnownValues, lastReadTime,
                         lastAlertTime, lastRead, lastGet, lastAlert, asciiReads,
                         logged, dispatched, deliveries, publishes, sessions>>]_vars

\* the loop was left in a later cycle and a reader still gets the snapshot of the
\* last completed cycle
C14_Witness ==
    /\ pc = "stopped"
    /\ stopReason \notin {"", "connect"}
    /\ DOMAIN latestReadings # {}
    /\ observed = latestReadings
    /\ \A a \in DOMAIN latestReadings : RowTime(latestReadings[a]) < cycleStart

\* C15: when the connection to a gateway fails, Run returns before the loop: no
\* cycle starts, no register is read, no row is logged, no alert is dispatched and
\* latestReadings (and so whatever a reader gets) stays empty.
C15_ConnectFailureAbortsStartup ==
    stopReason = "connect"
    => /\ pc = "stopped"
       /\ cycleStart = 0 /\ now = Epoch
       /\ lastRead = NoRead /\ lastGet = NoGet /\ asciiReads = EmptyDict
       /\ logged = <<>>
       /\ dispatched = <<>> /\ lastAlertTime = EmptyDict
       /\ currentCycleData = EmptyDict
       /\ latestReadings = EmptyDict /\ observed = EmptyDict

\* the second of two gateways did not connect
C15_Witness ==
    /\ stopReason = "connect"
    /\ Len(gateWays) = 2 /\ client = 2
    /\ sessions[1] = "open"

\* the entity name, a timestamp and one value, possibly None, for every register
\* definition, and nothing else
CompleteRow(row) ==
    /\ DOMAIN row = {"Tag", "Timestamp"} \cup RegisterKeys
    /\ row["Tag"] \in {Name(a) : a \in TagNames}
    /\ row["Timestamp"].t = "time"
    /\ \A k \in RegisterKeys : row[k] = None \/ row[k].t \in {"float", "str"}

\* C16: every row handed to AppendData and CheckAlerts, every row written to the
\* log and every row of a cycle's data or of the published snapshot has the entity
\* name, the cycle timestamp and exactly one value (None when there is none) for
\* every register definition, whatever the reads did and whatever the declared type.
C16_RowsComplete ==
    /\ pc = "row" => CompleteRow(currentRow) /\ RowTime(currentRow) = cycleStart
    /\ \A i \in 1..Len(logged) : CompleteRow(logged[i]) /\ RowTime(logged[i]) = cycleStart
    /\ \A a \in DOMAIN currentCycleData : CompleteRow(currentCycleData[a])
    /\ \A a \in DOMAIN latestReadings : CompleteRow(latestReadings[a])
    /\ \A a \in DOMAIN observed : CompleteRow(observed[a])

\* a published row holds None for a float register whose read failed and None for
\* a register of an unknown type, next to a number
C16_Witness ==
    /\ publishes = 1
    /\ \E a \in DOMAIN latestReadings :
         /\ "status" \in DOMAIN latestReadings[a]
         /\ latestReadings[a]["status"] = None
         /\ latestReadings[a]["voltage"] = None
         /\ latestReadings[a]["current"].t = "float"
         /\ logged[Len(logged)] = latestReadings[a]

\* C17: a SendEmbed call whose delivery fails raises nothing into Run: the step that
\* made the call leaves the loop running and records the alert time as for a
\* delivered one; and after a failed delivery a row with alerts evaluated more than
\* alertCooldown after the last recorded alert is still dispatched.
C17_DeliveryFailureAbsorbed ==
    [][/\ (Len(deliveries') > Len(deliveries)
           /\ deliveries'[Len(deliveries')] = "failed")
          => /\ stopReason' = ""
             /\ pc' \in {"read", "publish"}
             /\ sessions' = sessions
             /\ lastAlertTime' = Put(lastAlertTime, powertags[tagIdx].tagName, cycleStart)
       /\ ((\E i \in 1..Len(deliveries) : deliveries[i] = "failed")
           /\ Len(logged') = Len(logged) + 1
           /\ lastAlert'.alerts # <<>>
           /\ lastAlert'.at - lastAlert'.last > alertCooldown)
          => Len(dispatched') = Len(dispatched) + 1]_vars

\* the first delivery failed, the loop went on and a later cycle dispatched again
C17_Witness ==
    /\ Len(deliveries) = 2
    /\ deliveries[1] = "failed"
    /\ dispatched[1][2] < dispatched[2][2]
    /\ pc = "sleep"

\* C18: the sleep that ends a cycle lasts pollInterval minus the time since the
\* cycle started, and nothing when the cycle took pollInterval or longer; it is
\* never negative; the next cycle starts when the sleep ends, at least pollInterval
\* after the start of the one before, and right away after an overrun.
C18_Pacing ==
    [][/\ (pc = "sleep" /\ pc' = "cycle")
          => LET elapsed == now - cycleStart
             IN  /\ now' >= now
                 /\ elapsed < pollInterval => now' = cycleStart + pollInterval
                 /\ elapsed >= pollInterval => now' = now
                 /\ stopReason' = ""
       /\ (pc = "cycle" /\ pc' # "cycle")
          => /\ cycleStart' = now
             /\ cycleStart > 0 => cycleStart' - cycleStart >= pollInterval]_vars

\* a cycle took longer than pollInterval and the next one started with no sleep in
\* between, later than one pollInterval after it
C18_Witness ==
    /\ pc = "read" /\ tagIdx = 1 /\ regIdx = 1
    /\ now = cycleStart
    /\ DOMAIN latestReadings # {}
    /\ \A a \in DOMAIN latestReadings :
         cycleStart - RowTime(latestReadings[a]) > pollInterval

\* C19 as claimed: an ascii cache read made for one (entity name, register key)
\* pair changes neither the cached value nor the decision to read again of any
\* other pair, names and keys with "_" in them included.
C19_PairsIndependent ==
    [][callArgs'.op = "AsciiBranch"
       => \A t \in PairTags, k \in PairKeys :
            <<t, k>> # <<callArgs'.tagName, callArgs'.key>>
            => /\ Get(lastKnownValues', CacheKey(t, k), Unknown)
                    = Get(lastKnownValues, CacheKey(t, k), Unknown)
               /\ Stale(lastReadTime', CacheKey(t, k), now')
                    = Stale(lastReadTime, CacheKey(t, k), now')]_vars

\* C20 as claimed: the snapshot published at the end of a cycle holds exactly the
\* rows handed to AppendData and CheckAlerts in that cycle, one for every
\* configured entity, also when two entities have the same name.
C20_SnapshotHoldsEveryRow ==
    pc = "sleep"
    => /\ Cardinality(DOMAIN latestReadings) = Len(powertags)
       /\ \A i \in 1..Len(logged) : \E a \in DOMAIN latestReadings :
            latestReadings[a] = logged[i]
       /\ \A a \in DOMAIN latestReadings : \E i \in 1..Len(logged) :
            latestReadings[a] = logged[i]

====
